---------------------------- MODULE Spec2Model ----------------------------
(***************************************************************************)
(* Model of src/index.js: an Express server whose handlers delegate to a   *)
(* managed backend (auth, the "properties" table, the "property-images"    *)
(* storage bucket).  The service is the environment: each call either      *)
(* succeeds, returns an error value, or throws (rejects).                  *)
(*                                                                         *)
(* A handler suspends at every `await`, and other requests run meanwhile.  *)
(* A step of the model runs a handler up to and including its first call   *)
(* that reads or writes the table or the bucket (the steps before it touch *)
(* nothing another request can see, so they commute with every other       *)
(* step); each later call on shared state is a step of its own.  The two   *)
(* handlers with more than one such call are create (upload, then insert)  *)
(* and delete (owner lookup, then delete).                                 *)
(*                                                                         *)
(* Text that the code dissects (the Authorization header, the uploaded     *)
(* file's name, the numeric form fields) is a sequence of symbols, so that *)
(* split / parseInt / parseFloat are computed and not assumed.             *)
(***************************************************************************)
EXTENDS Integers, Sequences, FiniteSets, TLC

(* ------------------------------ bounds --------------------------------- *)
\* requests that arrive in one behaviour
MaxRequests == 2
\* requests in flight at the same time
MaxInFlight == 2
\* largest value Date.now() takes
MaxTime == 1

Slots == 1..MaxInFlight

(* --------------------------- text helpers ------------------------------ *)
\* String.prototype.split(sep): the pieces between the separators
RECURSIVE SplitAcc(_, _, _)
SplitAcc(s, sep, cur) ==
  IF s = <<>> THEN <<cur>>
  ELSE IF Head(s) = sep THEN <<cur>> \o SplitAcc(Tail(s), sep, <<>>)
  ELSE SplitAcc(Tail(s), sep, Append(cur, Head(s)))

Split(s, sep) == SplitAcc(s, sep, <<>>)

Digits == {"0", "1", "2", "3", "4", "5", "6", "7", "8", "9"}

\* the longest prefix of s made of digits
RECURSIVE DigitPrefix(_)
DigitPrefix(s) ==
  IF s = <<>> \/ Head(s) \notin Digits THEN <<>>
  ELSE <<Head(s)>> \o DigitPrefix(Tail(s))

RECURSIVE StripLeadingZeros(_)
StripLeadingZeros(s) ==
  IF Len(s) > 1 /\ Head(s) = "0" THEN StripLeadingZeros(Tail(s)) ELSE s

RECURSIVE StripTrailingZeros(_)
StripTrailingZeros(s) ==
  IF s # <<>> /\ s[Len(s)] = "0"
  THEN StripTrailingZeros(SubSeq(s, 1, Len(s) - 1)) ELSE s

Drop(s, n) == SubSeq(s, n + 1, Len(s))

NaN == <<"NaN">>
Null == <<"null">>

\* a number is written canonically: sign, integer part, "." and fraction
Canonical(neg, int, frac) ==
  LET i == StripLeadingZeros(IF int = <<>> THEN <<"0">> ELSE int)
      f == StripTrailingZeros(frac)
      zero == i = <<"0">> /\ f = <<>>
  IN (IF neg /\ ~zero THEN <<"-">> ELSE <<>>) \o i
       \o (IF f = <<>> THEN <<>> ELSE <<".">> \o f)

\* parseInt(text): optional sign, leading digits, the rest ignored
ParseInt(text) ==
  LET neg == text # <<>> /\ Head(text) = "-"
      body == IF text # <<>> /\ Head(text) \in {"-", "+"} THEN Tail(text) ELSE text
      int == DigitPrefix(body)
  IN IF int = <<>> THEN NaN ELSE Canonical(neg, int, <<>>)

\* parseFloat(text): optional sign, digits, optional "." and digits
ParseFloat(text) ==
  LET neg == text # <<>> /\ Head(text) = "-"
      body == IF text # <<>> /\ Head(text) \in {"-", "+"} THEN Tail(text) ELSE text
      int == DigitPrefix(body)
      rest == Drop(body, Len(int))
      frac == IF rest # <<>> /\ Head(rest) = "." THEN DigitPrefix(Tail(rest)) ELSE <<>>
  IN IF int = <<>> /\ frac = <<>> THEN NaN ELSE Canonical(neg, int, frac)


(* ------------------------- the external service ------------------------ *)

\* supabase.auth.getUser(token): the user the access token belongs to, ""
\* when the auth service knows no such token
TokenOwner(word) ==
  CASE word = <<"tokA">> -> "A"
    [] word = <<"tokB">> -> "B"
    [] OTHER -> ""

\* how a call to the service ends: it succeeds, it returns {error}, or the
\* promise rejects
Outcomes == {"ok", "error", "throw"}

ServiceMessage == "service unavailable"
ThrownMessage == "fetch failed"

\* a row of the "properties" table; key tells rows apart (the table's row
\* identity), id is the server-generated identifier the API filters on
SeedRow(key, id, owner) ==
  [key |-> key, id |-> id, user_id |-> owner, title |-> "Seed", price |-> Null,
   image_url |-> <<>>, lat |-> Null, lng |-> Null]

\* what the table holds when the server starts: nothing, one row, or two
\* rows that carry the same id (a table without a uniqueness constraint)
SeedTables ==
  { {}, {SeedRow(1, 1, "A")}, {SeedRow(1, 1, "A"), SeedRow(2, 1, "B")} }

\* .eq("id", id): the rows the filter selects
Matching(rows, id) == {row \in rows : row.id = id}

\* .single(): exactly one row, otherwise the call returns an error
IsSingle(rows) == Cardinality(rows) = 1

Undefined == "undefined"
UndefinedNum == <<"undefined">>

\* .update(patch): the columns the patch defines are replaced (a key whose
\* value is undefined is dropped when the patch is serialised)
ApplyPatch(row, patch) ==
  [key |-> row.key, id |-> row.id,
   user_id |-> IF patch.user_id = Undefined THEN row.user_id ELSE patch.user_id,
   title |-> IF patch.title = Undefined THEN row.title ELSE patch.title,
   price |-> IF patch.price = UndefinedNum THEN row.price ELSE patch.price,
   image_url |-> row.image_url,
   lat |-> IF patch.lat = UndefinedNum THEN row.lat ELSE patch.lat,
   lng |-> IF patch.lng = UndefinedNum THEN row.lng ELSE patch.lng]

\* storage.from("property-images").getPublicUrl(path)
PublicUrl(path) == <<"https://storage/object/public/", "property-images", "/">> \o path

(* ------------------------------ inputs --------------------------------- *)
\* Authorization headers, as symbols; <<>> is a request without the header
Headers ==
  { <<>>,
    <<"Bearer", " ", "tokA">>,
    <<"Bearer", " ", "tokB">>,
    <<"Basic", " ", "tokA">>,
    <<"Bearer", " ", "junk">>,
    <<"tokB">> }

\* the form "Bearer <token>"
IsBearerForm(header) ==
  LET parts == Split(header, " ")
  IN Len(parts) = 2 /\ parts[1] = <<"Bearer">> /\ parts[2] # <<>>

\* identifiers a path can name
PathIds == 1..2

Body(title, price, lat, lng, user_id, email) ==
  [title |-> title, price |-> price, lat |-> lat, lng |-> lng,
   user_id |-> user_id, email |-> email]

NoBody == Body(Undefined, <<>>, <<>>, <<>>, Undefined, "")

\* multipart bodies of POST /api/properties (text fields)
CreateBodies ==
  { Body("Lake House", <<"2", "5", "0">>, <<"4", "7", ".", "6", "0">>,
         <<"-", "1", "2", ".", "3">>, Undefined, ""),
    Body("Hut", <<>>, <<"x">>, <<>>, "B", "") }

\* JSON bodies of PUT /api/properties/:id
UpdateBodies ==
  { Body("Cabin", <<"9">>, <<"1">>, UndefinedNum, "B", ""),
    Body(Undefined, <<"5">>, UndefinedNum, UndefinedNum, Undefined, "") }

\* originalname of the attached image; <<>> when no file is attached
Files == { <<>>, <<"house", ".", "old", ".", "png">> }

Emails == {"", "a@example.com"}

(* ------------------------------ state ---------------------------------- *)
VARIABLES
  db,        \* the rows of the "properties" table
  nextKey,   \* identity of the next row
  nextId,    \* the next identifier the table generates
  storage,   \* paths of the objects in the "property-images" bucket
  now,       \* Date.now()
  reqs,      \* the requests in flight, by slot
  arrived,   \* number of requests received so far
  created,   \* history: every row as it was when it entered the table
  removed    \* history: every row removed, who removed it, and the rows the
             \* remover's owner lookup had seen

vars == <<db, nextKey, nextId, storage, now, reqs, arrived, created, removed>>

NoResp == [status |-> 0, kind |-> "pending", error |-> <<>>, data |-> {}]

\* res.status(status).json({error: message})
JsonError(status, message) ==
  [status |-> status, kind |-> "error", error |-> message, data |-> {}]

\* res.json(...) with status 200
Json(kind, data) == [status |-> 200, kind |-> kind, error |-> <<>>, data |-> data]

\* a rejection nobody catches leaves the async handler: the framework either
\* never answers the request or answers with its default error page
Escaped ==
  { [status |-> 0, kind |-> "unanswered", error |-> <<>>, data |-> {}],
    [status |-> 500, kind |-> "html", error |-> <<>>, data |-> {}] }

NoProperty ==
  [user_id |-> "", title |-> "", price |-> Null, image_url |-> <<>>,
   lat |-> Null, lng |-> Null]

IdleReq ==
  \* calls: the mutating calls the request has issued; failure, failedCall:
  \* how a call of the request failed; lookup, found: how the request's
  \* .single() query ended and the rows its filter matched at that moment
  [pc |-> "idle", route |-> "", header |-> <<>>, user |-> "",
   id |-> 0, body |-> NoBody, file |-> <<>>, filePath |-> <<>>,
   newProperty |-> NoProperty, calls |-> {}, failure |-> "none",
   failedCall |-> "", lookup |-> "none", found |-> {}, resp |-> NoResp]

Init ==
  /\ \E seed \in SeedTables :
       /\ db = seed
       /\ created = seed
       /\ nextKey = Cardinality(seed) + 1
       /\ nextId = IF seed = {} THEN 1 ELSE 2
  /\ storage = {}
  /\ now = 0
  /\ reqs = [r \in Slots |-> IdleReq]
  /\ arrived = 0
  /\ removed = {}

\* the handler answers and returns
Respond(r, req, resp) ==
  reqs' = [reqs EXCEPT ![r] = [req EXCEPT !.pc = "done", !.resp = resp]]

\* the handler awaits a call to the service
Await(r, req, call) ==
  reqs' = [reqs EXCEPT ![r] = [req EXCEPT !.pc = call]]

Unchanged_service == UNCHANGED <<db, nextKey, nextId, storage, created, removed>>


\* a call of the request failed: how ("error" returned, "throw" rejected)
Failed(req, how, call) == [req EXCEPT !.failure = how, !.failedCall = call]

Issue(req, call) == [req EXCEPT !.calls = @ \cup {call}]

\* res.json() writes the response within the handler's own turn of the event
\* loop: no other callback runs before the request is over
Quiet == \A q \in Slots : reqs[q].pc # "done"

\* requests take the lowest free slot
FreeSlot(r) ==
  /\ Quiet
  /\ reqs[r].pc = "idle"
  /\ \A q \in Slots : q < r => reqs[q].pc # "idle"
  /\ arrived < MaxRequests

(* -------------------- POST /api/send-login-link ------------------------ *)
SendLoginLink(r) ==
  /\ FreeSlot(r)
  /\ \E email \in Emails, o \in Outcomes :
       LET req == [IdleReq EXCEPT !.route = "login", !.body.email = email]
       IN CASE email = "" ->
                 Respond(r, req, JsonError(400, <<"Email is required">>))
            [] email # "" /\ o = "ok" ->
                 Respond(r, req, Json("message", {}))
            [] email # "" /\ o = "error" ->
                 Respond(r, Failed(req, "error", "generateLink"),
                         JsonError(400, <<ServiceMessage>>))
            [] email # "" /\ o = "throw" ->
                 \E e \in Escaped :
                   Respond(r, Failed(req, "throw", "generateLink"), e)
  /\ arrived' = arrived + 1
  /\ UNCHANGED now
  /\ Unchanged_service

(* ------------------------ GET /api/properties -------------------------- *)
ListProperties(r) ==
  /\ FreeSlot(r)
  /\ \E o \in Outcomes :
       LET req == [IdleReq EXCEPT !.route = "list"]
       IN CASE o = "ok" ->
                 Respond(r, req, Json("list", db))
            [] o = "error" ->
                 Respond(r, Failed(req, "error", "selectAll"),
                         JsonError(500, <<ServiceMessage>>))
            [] o = "throw" ->
                 Respond(r, Failed(req, "throw", "selectAll"),
                         JsonError(500, <<ThrownMessage>>))
  /\ arrived' = arrived + 1
  /\ UNCHANGED now
  /\ Unchanged_service

(* ----------------------------- authenticate ---------------------------- *)
\* authHeader.split(" ")[1]: <<word>>, or <<>> when there is no second piece
ExtractToken(header) ==
  LET parts == Split(header, " ")
  IN IF Len(parts) >= 2 THEN <<parts[2]>> ELSE <<>>

\* the guard, when supabase.auth.getUser ends as o: next() is called with
\* req.user set (ok), or the guard answers 401
Authenticate(header, o) ==
  LET token == ExtractToken(header)
      user == IF token = <<>> THEN "" ELSE TokenOwner(token[1])
  IN CASE header = <<>> ->
            [ok |-> FALSE, user |-> "", failure |-> "none",
             resp |-> JsonError(401, <<"No token provided">>)]
       [] header # <<>> /\ o = "throw" ->
            [ok |-> FALSE, user |-> "", failure |-> "throw",
             resp |-> JsonError(401, <<"Unauthorized">>)]
       [] header # <<>> /\ (o = "error" \/ (o = "ok" /\ user = "")) ->
            [ok |-> FALSE, user |-> "", failure |-> "error",
             resp |-> JsonError(401, <<"Invalid token">>)]
       [] header # <<>> /\ o = "ok" /\ user # "" ->
            [ok |-> TRUE, user |-> user, failure |-> "none", resp |-> NoResp]

\* the request as the guard leaves it
Guarded(route, header, auth) ==
  LET req == [IdleReq EXCEPT !.route = route, !.header = header, !.user = auth.user]
  IN IF auth.failure = "none" THEN req ELSE Failed(req, auth.failure, "getUser")

(* ------------------------ POST /api/properties ------------------------- *)
\* public/${Date.now()}.${originalname.split(".").pop()}
FilePath(originalname, t) ==
  LET pieces == Split(originalname, ".")
  IN <<"public/", ToString(t), ".">> \o pieces[Len(pieces)]

\* the record assembled with the form's fields spread over it
NewPropertyTrustingBody(userId, body, imageUrl) ==
  [user_id |-> IF body.user_id # Undefined THEN body.user_id ELSE userId,
   title |-> body.title,
   price |-> IF body.price # <<>> THEN ParseInt(body.price) ELSE Null,
   image_url |-> imageUrl,
   lat |-> IF body.lat # <<>> THEN ParseFloat(body.lat) ELSE Null,
   lng |-> IF body.lng # <<>> THEN ParseFloat(body.lng) ELSE Null]

\* the record the handler assembles
NewProperty(userId, body, imageUrl) ==
  [user_id |-> userId,
   title |-> body.title,
   price |-> IF body.price # <<>> THEN ParseInt(body.price) ELSE Null,
   image_url |-> imageUrl,
   lat |-> IF body.lat # <<>> THEN ParseFloat(body.lat) ELSE Null,
   lng |-> IF body.lng # <<>> THEN ParseFloat(body.lng) ELSE Null]

\* imageUrl left as initialised
ImageUrlNeverSet(filePath) == <<>>

\* imageUrl = getPublicUrl(filePath).data.publicUrl
ImageUrlAfterUpload(filePath) == PublicUrl(filePath)

\* the handler assembles the record and awaits the insert
AwaitInsert(r, req, imageUrl) ==
  Await(r, Issue([req EXCEPT !.newProperty =
                                NewProperty(req.user, req.body, imageUrl)],
                 "insert"), "insert")

\* the upload error is not checked and the handler goes on
UploadErrorIgnored(r, req, message) == AwaitInsert(r, req, <<>>)

\* if (uploadError) return res.status(500).json(...)
UploadErrorReturned(r, req, message) ==
  Respond(r, req, JsonError(500, <<"Image upload failed: ", message>>))

\* multer has parsed the form (body, file); the handler runs to the insert,
\* through the upload (which ends as o) when a file is attached.  The upload
\* passes no upsert option, so the bucket refuses a path it already holds.
CreateEntered(r, authed, body, file, o) ==
  LET q == [authed EXCEPT !.body = body, !.file = file]
      req == Issue([q EXCEPT !.filePath = FilePath(file, now)], "upload")
      exists == req.filePath \in storage
  IN CASE file = <<>> ->
            /\ AwaitInsert(r, q, <<>>)
            /\ UNCHANGED storage
       [] file # <<>> /\ o = "ok" /\ ~exists ->
            /\ storage' = storage \cup {req.filePath}
            /\ AwaitInsert(r, req, ImageUrlAfterUpload(req.filePath))
       [] file # <<>> /\ o = "ok" /\ exists ->
            /\ UploadErrorReturned(r, Failed(req, "error", "upload"),
                                   "The resource already exists")
            /\ UNCHANGED storage
       [] file # <<>> /\ o = "error" ->
            /\ UploadErrorReturned(r, Failed(req, "error", "upload"), ServiceMessage)
            /\ UNCHANGED storage
       [] file # <<>> /\ o = "throw" ->
            /\ Respond(r, Failed(req, "throw", "upload"),
                       JsonError(500, <<ThrownMessage>>))
            /\ UNCHANGED storage

CreateProperty(r) ==
  /\ FreeSlot(r)
  /\ \E header \in Headers, a \in Outcomes :
       LET auth == Authenticate(header, a)
           req == Guarded("create", header, auth)
       IN IF ~auth.ok
          THEN Respond(r, req, auth.resp) /\ UNCHANGED storage
          ELSE \E body \in CreateBodies, file \in Files, o \in Outcomes :
                 CreateEntered(r, req, body, file, o)
  /\ arrived' = arrived + 1
  /\ UNCHANGED <<db, nextKey, nextId, created, removed, now>>

\* .insert([newProperty]).select(): the table assigns the identifier
InsertedRow(p, key, id) ==
  [key |-> key, id |-> id, user_id |-> p.user_id, title |-> p.title,
   price |-> p.price, image_url |-> p.image_url, lat |-> p.lat, lng |-> p.lng]

InsertReturns(r) ==
  /\ Quiet
  /\ reqs[r].pc = "insert"
  /\ \E o \in Outcomes :
       LET req == reqs[r]
           row == InsertedRow(req.newProperty, nextKey, nextId)
       IN CASE o = "ok" ->
                 /\ db' = db \cup {row}
                 /\ created' = created \cup {row}
                 /\ nextKey' = nextKey + 1
                 /\ nextId' = nextId + 1
                 /\ Respond(r, req, Json("created", {row}))
            [] o = "error" ->
                 /\ Respond(r, Failed(req, "error", "insert"),
                            JsonError(500, <<ServiceMessage>>))
                 /\ UNCHANGED <<db, created, nextKey, nextId>>
            [] o = "throw" ->
                 /\ Respond(r, Failed(req, "throw", "insert"),
                            JsonError(500, <<ThrownMessage>>))
                 /\ UNCHANGED <<db, created, nextKey, nextId>>
  /\ UNCHANGED <<storage, removed, now, arrived>>

(* ---------------------- GET /api/properties/:id ------------------------ *)
GetProperty(r) ==
  /\ FreeSlot(r)
  /\ \E id \in PathIds, o \in Outcomes :
       LET m == Matching(db, id)
           req == [IdleReq EXCEPT !.route = "get", !.id = id,
                                  !.lookup = o, !.found = m]
       IN CASE o = "ok" /\ IsSingle(m) ->
                 Respond(r, req, Json("record", m))
            [] o = "error" \/ (o = "ok" /\ ~IsSingle(m)) ->
                 Respond(r, Failed(req, "error", "selectOne"),
                         JsonError(404, <<"Property not found">>))
            [] o = "throw" ->
                 \E e \in Escaped :
                   Respond(r, Failed(req, "throw", "selectOne"), e)
  /\ arrived' = arrived + 1
  /\ UNCHANGED now
  /\ Unchanged_service

(* ---------------------- PUT /api/properties/:id ------------------------ *)
\* .update(req.body)
UpdatePatchWholeBody(body) ==
  [title |-> body.title, price |-> body.price, user_id |-> body.user_id,
   lat |-> body.lat, lng |-> body.lng]

\* .update({ title, price, lat, lng })
UpdatePatchWithCoordinates(body) ==
  [title |-> body.title, price |-> body.price, user_id |-> Undefined,
   lat |-> body.lat, lng |-> body.lng]

\* .update({ title, price })
UpdatePatch(body) ==
  [title |-> body.title, price |-> body.price, user_id |-> Undefined,
   lat |-> UndefinedNum, lng |-> UndefinedNum]

\* the handler proper, when the update call ends as o
UpdateEntered(r, authed, id, body, o) ==
  LET req == Issue([authed EXCEPT !.id = id, !.body = body], "update")
      m == Matching(db, id)
      data == {ApplyPatch(row, UpdatePatch(body)) : row \in m}
  IN CASE o = "ok" ->
            /\ db' = (db \ m) \cup data
            /\ IF data = {}
               THEN Respond(r, req, Json("empty", {}))
               ELSE \E first \in data : Respond(r, req, Json("record", {first}))
       [] o = "error" ->
            /\ Respond(r, Failed(req, "error", "update"),
                       JsonError(500, <<"ERROR::::", ServiceMessage>>))
            /\ UNCHANGED db
       [] o = "throw" ->
            /\ \E e \in Escaped : Respond(r, Failed(req, "throw", "update"), e)
            /\ UNCHANGED db

UpdateProperty(r) ==
  /\ FreeSlot(r)
  /\ \E header \in Headers, a \in Outcomes :
       LET auth == Authenticate(header, a)
           req == Guarded("update", header, auth)
       IN IF ~auth.ok
          THEN Respond(r, req, auth.resp) /\ UNCHANGED db
          ELSE \E id \in PathIds, body \in UpdateBodies, o \in Outcomes :
                 UpdateEntered(r, req, id, body, o)
  /\ arrived' = arrived + 1
  /\ UNCHANGED <<nextKey, nextId, storage, created, removed, now>>

(* --------------------- DELETE /api/properties/:id ---------------------- *)
\* the ownership check left out
OwnerCheckSkipped(existing, userId) == TRUE

\* existing.user_id !== userId fails the request
OwnerMatches(existing, userId) == existing.user_id = userId

\* the handler up to the deletion, when the owner lookup ends as o
DeleteEntered(r, authed, id, o) ==
  LET m == Matching(db, id)
      req == [authed EXCEPT !.id = id, !.lookup = o, !.found = m]
  IN CASE o = "ok" /\ IsSingle(m) ->
            LET existing == CHOOSE row \in m : TRUE
            IN IF ~OwnerMatches(existing, req.user)
               THEN Respond(r, req,
                      JsonError(403, <<"Not authorized to delete this property">>))
               ELSE Await(r, Issue(req, "delete"), "delete")
       [] o = "error" \/ (o = "ok" /\ ~IsSingle(m)) ->
            Respond(r, Failed(req, "error", "findOwner"),
                    JsonError(404, <<"Property not found">>))
       [] o = "throw" ->
            \E e \in Escaped : Respond(r, Failed(req, "throw", "findOwner"), e)

DeleteProperty(r) ==
  /\ FreeSlot(r)
  /\ \E header \in Headers, a \in Outcomes :
       LET auth == Authenticate(header, a)
           req == Guarded("delete", header, auth)
       IN IF ~auth.ok
          THEN Respond(r, req, auth.resp)
          ELSE \E id \in PathIds, o \in Outcomes : DeleteEntered(r, req, id, o)
  /\ arrived' = arrived + 1
  /\ UNCHANGED now
  /\ Unchanged_service

DeleteReturns(r) ==
  /\ Quiet
  /\ reqs[r].pc = "delete"
  /\ \E o \in Outcomes :
       LET req == reqs[r]
           m == Matching(db, req.id)
       IN CASE o = "ok" ->
                 /\ db' = db \ m
                 /\ removed' = removed \cup
                      {[row |-> row, by |-> req.user, seen |-> req.found] : row \in m}
                 /\ Respond(r, req, Json("message", {}))
            [] o = "error" ->
                 /\ Respond(r, Failed(req, "error", "delete"),
                            JsonError(500, <<ServiceMessage>>))
                 /\ UNCHANGED <<db, removed>>
            [] o = "throw" ->
                 /\ \E e \in Escaped :
                      Respond(r, Failed(req, "throw", "delete"), e)
                 /\ UNCHANGED <<db, removed>>
  /\ UNCHANGED <<nextKey, nextId, storage, created, now, arrived>>

(* ------------------------------ the rest ------------------------------- *)
\* time passes
Tick ==
  /\ Quiet
  /\ now < MaxTime
  /\ now' = now + 1
  /\ UNCHANGED <<db, nextKey, nextId, storage, reqs, arrived, created, removed>>

\* the response has been written; the request is over
Finish(r) ==
  /\ reqs[r].pc = "done"
  /\ reqs' = [reqs EXCEPT ![r] = IdleReq]
  /\ UNCHANGED <<db, nextKey, nextId, storage, now, arrived, created, removed>>

Next ==
  \/ \E r \in Slots : SendLoginLink(r)
  \/ \E r \in Slots : ListProperties(r)
  \/ \E r \in Slots : GetProperty(r)
  \/ \E r \in Slots : CreateProperty(r)
  \/ \E r \in Slots : InsertReturns(r)
  \/ \E r \in Slots : UpdateProperty(r)
  \/ \E r \in Slots : DeleteProperty(r)
  \/ \E r \in Slots : DeleteReturns(r)
  \/ \E r \in Slots : Finish(r)
  \/ Tick

Spec == Init /\ [][Next]_vars


(* ------------------------------- claims -------------------------------- *)
Protected == {"create", "update", "delete"}

\* the owner lookup of a delete request found exactly one row, and it
\* belongs to somebody else
ForeignSingle(q) ==
  /\ q.route = "delete"
  /\ IsSingle(q.found)
  /\ \A row \in q.found : row.user_id # q.user

\* C1, as stated: a DELETE authenticated as B on a record owned by another
\* user A is answered 403 and issues no deletion call.  (Stated for owner
\* lookups that return; a lookup that rejects is the subject of C7.)
C1_ForeignDeleteIs403 ==
  \A r \in Slots :
    LET q == reqs[r]
    IN ForeignSingle(q) /\ q.lookup \in {"ok", "error"}
       => q.pc = "done" /\ q.resp.status = 403 /\ "delete" \notin q.calls

\* C1, amended: a DELETE authenticated as B whose owner lookup falls on a
\* record owned by another user never issues the deletion call and leaves
\* the record as it found it; the answer is 403 when the lookup returns the
\* record, 404 when the lookup returns an error, and the framework's (no
\* JSON answer) when the lookup rejects.
C1_ForeignDeleteNeverDeletes ==
  \A r \in Slots :
    LET q == reqs[r]
    IN ForeignSingle(q) /\ q.lookup # "none"
       => /\ q.pc = "done"
          /\ "delete" \notin q.calls
          /\ q.found = Matching(db, q.id)
          /\ q.lookup = "ok" => q.resp.status = 403 /\ q.resp.kind = "error"
          /\ q.lookup = "error" => q.resp.status = 404 /\ q.resp.kind = "error"
          /\ q.lookup = "throw" => q.resp \in Escaped

C1_Witness ==
  \E r \in Slots :
    /\ ForeignSingle(reqs[r])
    /\ reqs[r].lookup = "ok"
    /\ reqs[r].resp.status = 403

\* C2: a create, update or delete request whose Authorization header is
\* missing or not of the form "Bearer <token>" is answered 401 and issues no
\* insert, update, delete or upload call.
C2_MalformedHeaderIs401 ==
  \A r \in Slots :
    LET q == reqs[r]
    IN q.route \in Protected /\ ~IsBearerForm(q.header)
       => q.calls = {} /\ q.pc = "done" /\ q.resp.status = 401

\* C3: the record the create handler persists is owned by the identity the
\* guard resolved for the request, whatever user_id the body carries.
C3_OwnerIsAuthenticatedUser ==
  \A r \in Slots :
    LET q == reqs[r]
    IN q.route = "create" /\ q.resp.kind = "created"
       => /\ q.user = TokenOwner(ExtractToken(q.header)[1])
          /\ \A row \in q.resp.data :
               row \in db /\ row \in created /\ row.user_id = q.user

C3_Witness ==
  \E r \in Slots :
    /\ reqs[r].route = "create"
    /\ reqs[r].resp.kind = "created"
    /\ reqs[r].body.user_id \notin {Undefined, reqs[r].user}

\* every row of the table has the identifier, owner, image URL, latitude and
\* longitude it entered the table with
C4_CreatedFieldsKept ==
  \A row \in db :
    \E o \in created :
      /\ o.key = row.key /\ o.id = row.id /\ o.user_id = row.user_id
      /\ o.image_url = row.image_url /\ o.lat = row.lat /\ o.lng = row.lng

\* an update request leaves the rows with another identifier as they are
C4_UpdateTouchesOnlyItsId ==
  \A r \in Slots :
    reqs[r].pc = "idle" /\ reqs'[r].route = "update"
    => \A row \in db : row.id # reqs'[r].id => row \in db'

\* C4: after any sequence of create, update and delete requests every
\* existing record has the identifier, owner, image URL, latitude and
\* longitude it was created with; an update changes only the title and price
\* of the records with the given identifier and no other record.
C4_UpdateFrame == []C4_CreatedFieldsKept /\ [][C4_UpdateTouchesOnlyItsId]_vars

C4_Witness ==
  \E row \in db, o \in created, other \in db :
    /\ o.key = row.key
    /\ row.title # o.title
    /\ row.image_url # <<>>
    /\ other.id # row.id

\* C5: the record a successful create returns has an empty image URL exactly
\* when no image was attached; with an image it is the public URL of the
\* object the request uploaded.
C5_ImageUrlMatchesUpload ==
  \A r \in Slots :
    LET q == reqs[r]
    IN q.route = "create" /\ q.resp.kind = "created"
       => \A row \in q.resp.data :
            /\ row.image_url = <<>> <=> q.file = <<>>
            /\ q.file # <<>>
               => /\ "upload" \in q.calls
                  /\ q.filePath \in storage
                  /\ row.image_url = PublicUrl(q.filePath)

C5_Witness ==
  \E r \in Slots :
    /\ reqs[r].route = "create"
    /\ reqs[r].resp.kind = "created"
    /\ reqs[r].file # <<>>

\* C6: when the upload of a create request returns an error, the answer is
\* 500 with a message that starts "Image upload failed: " and the request
\* inserts no record.
C6_UploadErrorAbandonsCreate ==
  \A r \in Slots :
    LET q == reqs[r]
    IN q.route = "create" /\ q.failedCall = "upload" /\ q.failure = "error"
       => /\ q.pc = "done"
          /\ q.resp.status = 500
          /\ q.resp.kind = "error"
          /\ Head(q.resp.error) = "Image upload failed: "
          /\ "insert" \notin q.calls

C6_Witness ==
  \E r \in Slots :
    /\ reqs[r].failedCall = "upload"
    /\ reqs[r].failure = "error"
    /\ reqs[r].resp.status = 500

\* C7: every failure of a call to the service, returned or thrown, in every
\* handler and in the guard, ends in one HTTP error response with an
\* {error: message} body.
C7_EveryFailureAnswered ==
  \A r \in Slots :
    LET q == reqs[r]
    IN q.failure # "none"
       => /\ q.pc = "done"
          /\ q.resp.kind = "error"
          /\ q.resp.status >= 400
          /\ q.resp.error # <<>>

\* C8: an authenticated PUT is answered 500 (the update call failed) or with
\* the updated record, which carries the body's title and price; an answer
\* that is not an error never lacks the record.
C8_UpdateAnswersRecordOr500 ==
  \A r \in Slots :
    LET q == reqs[r]
    IN q.route = "update" /\ q.user # "" /\ q.pc = "done"
       /\ q.resp.kind # "unanswered"
       => \/ q.resp.status = 500 /\ q.failedCall = "update"
          \/ /\ q.resp.kind = "record"
             /\ q.resp.data # {}
             /\ \A row \in q.resp.data :
                  /\ row.id = q.id
                  /\ q.body.title # Undefined => row.title = q.body.title
                  /\ q.body.price # UndefinedNum => row.price = q.body.price

\* C9: a GET by identifier that matches no record or several is answered 404
\* {error: "Property not found"}, never 500 and never a list; a record is
\* returned only when exactly one matches.
C9_GetByIdIs404UnlessSingle ==
  \A r \in Slots :
    LET q == reqs[r]
    IN q.route = "get" /\ q.pc = "done"
       => /\ ~IsSingle(q.found)
               => /\ q.resp.status = 404
                  /\ q.resp.kind = "error"
                  /\ q.resp.error = <<"Property not found">>
          /\ q.resp.kind = "record" => IsSingle(q.found) /\ q.resp.data = q.found

\* C10: in every interleaving a record leaves the table only through a
\* delete request whose authenticated identity is the record's owner at the
\* moment it is removed.
C10_RemovedOnlyByOwner ==
  /\ \A d \in removed : d.by = d.row.user_id
  /\ \A o \in created :
       \/ \E row \in db : row.key = o.key
       \/ \E d \in removed : d.row.key = o.key

\* a record was removed that another request had changed between the
\* remover's owner lookup and its deletion
C10_Witness ==
  \E d \in removed : d.row \notin d.seen

=============================================================================
